---- MODULE Spec2Model ----
(***************************************************************************)
(* generate_dashboard.py as a state machine: the fetch of the sheet,        *)
(* process_data step by step, and the writing of the report by __main__    *)
(* (Spec); the detail table of the generated page, event by event          *)
(* (PageSpec).                                                             *)
(*                                                                         *)
(* A cell is a Python str, modelled as the sequence of its characters      *)
(* (one-character strings), so that strip(), truthiness, comparison with   *)
(* 'N/A', float() parsing and sorted() are computed on the text itself.    *)
(* A Python dict is the sequence of its <<key, value>> items in insertion  *)
(* order; a Python set is a set.                                           *)
(***************************************************************************)
EXTENDS Integers, Sequences, FiniteSets, TLC

(***************************************************************************)
(* Characters and str operations                                           *)
(***************************************************************************)

\* The characters the model's cells are written in, in code-point order.
CodePoints ==
  << "\t", "\n", " ", "%", "+", "-", ".", "/",
     "0", "1", "2", "3", "4", "5", "6", "7", "8", "9",
     "A", "B", "D", "E", "F", "I", "L", "M", "N", "P", "S", "T", "X", "Y",
     "a", "b", "c", "d", "e", "f", "h", "i", "l", "n", "o", "r", "s", "t",
     "u", "x", "y" >>

Ord(c) == CHOOSE n \in 1..Len(CodePoints) : CodePoints[n] = c

Whitespace == {" ", "\t", "\n"}

DigitChars == <<"0", "1", "2", "3", "4", "5", "6", "7", "8", "9">>

IsDigit(c) == \E d \in 1..Len(DigitChars) : DigitChars[d] = c

DigitVal(c) == (CHOOSE d \in 1..Len(DigitChars) : DigitChars[d] = c) - 1

\* The 'N/A' literal of the source.
NA == <<"N", "/", "A">>

\* The 'All' literal of the source.
All == <<"A", "l", "l">>

\* bool(s) of a str.
Truthy(s) == s # <<>>

RECURSIVE LStrip(_)
LStrip(s) ==
  IF s = <<>> \/ Head(s) \notin Whitespace THEN s ELSE LStrip(Tail(s))

RECURSIVE RStrip(_)
RStrip(s) ==
  IF s = <<>> \/ s[Len(s)] \notin Whitespace THEN s
  ELSE RStrip(SubSeq(s, 1, Len(s) - 1))

\* str.strip()
Strip(s) == RStrip(LStrip(s))

\* a < b for two str (lexicographic by code point).
RECURSIVE StrLess(_, _)
StrLess(a, b) ==
  IF b = <<>> THEN FALSE
  ELSE IF a = <<>> THEN TRUE
  ELSE IF Head(a) = Head(b) THEN StrLess(Tail(a), Tail(b))
  ELSE Ord(Head(a)) < Ord(Head(b))

RECURSIVE DigitsToNat(_)
DigitsToNat(s) ==
  IF s = <<>> THEN 0
  ELSE DigitsToNat(SubSeq(s, 1, Len(s) - 1)) * 10 + DigitVal(s[Len(s)])

RECURSIVE NatToStr(_)
NatToStr(n) ==
  IF n < 10 THEN <<DigitChars[n + 1]>>
  ELSE NatToStr(n \div 10) \o <<DigitChars[(n % 10) + 1]>>

\* str(n) of an int.
IntToStr(n) == IF n < 0 THEN <<"-">> \o NatToStr(-n) ELSE NatToStr(n)

\* int(s) of the text of an int, as str(n) writes it.
StrToInt(s) ==
  IF s # <<>> /\ Head(s) = "-" THEN -DigitsToNat(Tail(s)) ELSE DigitsToNat(s)

AllDigits(s) == \A j \in 1..Len(s) : IsDigit(s[j])

\* str.lower() on the letters of 'inf', 'infinity', 'nan' and the exponent mark.
LowerChar(c) ==
  CASE c = "I" -> "i" [] c = "N" -> "n" [] c = "F" -> "f" [] c = "A" -> "a"
    [] c = "T" -> "t" [] c = "Y" -> "y" [] c = "E" -> "e" [] OTHER -> c

Lower(s) == [j \in 1..Len(s) |-> LowerChar(s[j])]

\* The first index of character c in s, 0 when absent.
IndexOf(s, c) ==
  IF \E j \in 1..Len(s) : s[j] = c
  THEN CHOOSE j \in 1..Len(s) : s[j] = c /\ \A h \in 1..(j - 1) : s[h] # c
  ELSE 0

Zeros(n) == [j \in 1..n |-> "0"]

(***************************************************************************)
(* float(s): [sign] digits [. digits] [e [sign] digits] | [sign] inf |      *)
(* [sign] infinity | [sign] nan, surrounding whitespace ignored.           *)
(* The result is [kind |-> "invalid"] (ValueError), "nan", "inf", or        *)
(* "finite" with the sign and the digits of the value truncated towards    *)
(* zero, which is what int() then takes.  A finite value is exact here for *)
(* magnitudes below 2^31, which the cells of the model stay within.        *)
(***************************************************************************)
MaxDoubleExp10 == 308

\* [sign |-> 1 or -1, body |-> the text after the sign]
Signed(s) ==
  IF s # <<>> /\ Head(s) \in {"+", "-"}
  THEN [sign |-> IF Head(s) = "-" THEN -1 ELSE 1, body |-> Tail(s)]
  ELSE [sign |-> 1, body |-> s]

\* The exponent text after 'e': [ok, val]
ExponentOf(t) ==
  LET sg == Signed(t)
  IN IF sg.body # <<>> /\ AllDigits(sg.body)
     THEN [ok |-> TRUE, val |-> sg.sign * DigitsToNat(sg.body)]
     ELSE [ok |-> FALSE, val |-> 0]

\* The mantissa text: [ok, int, frac]
MantissaOf(t) ==
  LET dot == IndexOf(t, ".")
      ip  == IF dot = 0 THEN t ELSE SubSeq(t, 1, dot - 1)
      fp  == IF dot = 0 THEN <<>> ELSE SubSeq(t, dot + 1, Len(t))
  IN [ok |-> AllDigits(ip) /\ AllDigits(fp) /\ Len(ip) + Len(fp) > 0,
      int |-> ip, frac |-> fp]

ParseFloat(s) ==
  LET t    == Lower(Strip(s))
      sg   == Signed(t)
      b    == sg.body
      epos == IndexOf(b, "e")
      mt   == IF epos = 0 THEN b ELSE SubSeq(b, 1, epos - 1)
      ex   == IF epos = 0 THEN [ok |-> TRUE, val |-> 0]
              ELSE ExponentOf(SubSeq(b, epos + 1, Len(b)))
      m    == MantissaOf(mt)
      all  == m.int \o m.frac
      p    == Len(m.int) + ex.val
      nz   == {j \in 1..Len(all) : all[j] # "0"}
      lead == CHOOSE j \in nz : \A h \in nz : j <= h
      e10  == p - lead
  IN IF b \in {<<"i", "n", "f">>, <<"i", "n", "f", "i", "n", "i", "t", "y">>}
       THEN [kind |-> "inf", sign |-> sg.sign, trunc |-> 0]
     ELSE IF b = <<"n", "a", "n">>
       THEN [kind |-> "nan", sign |-> sg.sign, trunc |-> 0]
     ELSE IF ~(m.ok /\ ex.ok)
       THEN [kind |-> "invalid", sign |-> sg.sign, trunc |-> 0]
     ELSE IF nz = {}
       THEN [kind |-> "finite", sign |-> sg.sign, trunc |-> 0]
     ELSE IF e10 > MaxDoubleExp10 \/ (e10 = MaxDoubleExp10 /\ DigitVal(all[lead]) >= 2)
       THEN [kind |-> "inf", sign |-> sg.sign, trunc |-> 0]
     ELSE [kind |-> "finite", sign |-> sg.sign,
           trunc |-> IF p <= 0 THEN 0
                     ELSE IF p <= Len(all) THEN DigitsToNat(SubSeq(all, 1, p))
                     ELSE DigitsToNat(all \o Zeros(p - Len(all)))]

\* int(float(s)): [exc |-> "none", val |-> n], or the exception it raises.
IntOfFloat(s) ==
  LET f == ParseFloat(s)
  IN CASE f.kind = "finite"  -> [exc |-> "none", val |-> f.sign * f.trunc]
       [] f.kind = "inf"     -> [exc |-> "OverflowError", val |-> 0]
       [] f.kind = "nan"     -> [exc |-> "ValueError", val |-> 0]
       [] f.kind = "invalid" -> [exc |-> "ValueError", val |-> 0]

(***************************************************************************)
(* dict, sorted() and list helpers                                         *)
(***************************************************************************)

DictKeys(d) == [j \in 1..Len(d) |-> d[j][1]]

DictValues(d) == [j \in 1..Len(d) |-> d[j][2]]

DictHas(d, key) == \E j \in 1..Len(d) : d[j][1] = key

\* d[key] of a key that is present.
DictAt(d, key) == d[CHOOSE j \in 1..Len(d) : d[j][1] = key][2]

\* d.get(key, default)
DictGet(d, key, default) == IF DictHas(d, key) THEN DictAt(d, key) ELSE default

\* d[key] = value: in place for a present key, appended for a new one.
DictSet(d, key, value) ==
  IF DictHas(d, key)
  THEN [j \in 1..Len(d) |-> IF d[j][1] = key THEN <<key, value>> ELSE d[j]]
  ELSE Append(d, <<key, value>>)

\* d[key] = d.get(key, 0) + 1
DictInc(d, key) == DictSet(d, key, DictGet(d, key, 0) + 1)

RECURSIVE SumSeq(_)
SumSeq(s) == IF s = <<>> THEN 0 ELSE Head(s) + SumSeq(Tail(s))

\* sorted(): stable.  before[h][j] says that the sort key of s[h] is to come
\* strictly before that of s[j]; elements with equal keys keep their order.
StableSort(s, before) ==
  LET rank(j) == Cardinality({h \in 1..Len(s) :
                    before[h][j] \/ (h < j /\ ~before[j][h])})
  IN [r \in 1..Len(s) |-> s[CHOOSE j \in 1..Len(s) : rank(j) = r - 1]]

\* sorted(list of str)
SortedStrs(s) ==
  StableSort(s, [h \in 1..Len(s) |-> [j \in 1..Len(s) |-> StrLess(s[h], s[j])]])

\* sorted(list of int)
SortedInts(s) ==
  StableSort(s, [h \in 1..Len(s) |-> [j \in 1..Len(s) |-> s[h] < s[j]]])

\* Series.unique().tolist(): the distinct values in order of first appearance.
RECURSIVE Unique(_)
Unique(s) ==
  IF s = <<>> THEN <<>>
  ELSE LET front == SubSeq(s, 1, Len(s) - 1)
           last  == s[Len(s)]
       IN IF \E j \in 1..Len(front) : front[j] = last
          THEN Unique(front) ELSE Append(Unique(front), last)

\* s[:n]
Take(s, n) == SubSeq(s, 1, IF Len(s) < n THEN Len(s) ELSE n)

\* The elements of a list.
Range(s) == {s[j] : j \in 1..Len(s)}

(***************************************************************************)
(* Inputs: the column mapping and the rows                                 *)
(***************************************************************************)

NumSlots == 3

Slots == 1..NumSlots

NameKey(k) ==
  CASE k = 1 -> "NARAN_KANORIN_1" [] k = 2 -> "NARAN_KANORIN_2"
    [] k = 3 -> "NARAN_KANORIN_3"

SexKey(k) == CASE k = 1 -> "SEKSU_1" [] k = 2 -> "SEKSU_2" [] k = 3 -> "SEKSU_3"

AgeKey(k) == CASE k = 1 -> "IDADE_1" [] k = 2 -> "IDADE_2" [] k = 3 -> "IDADE_3"

\* The mapping the program is run with.
COLUMN_MAPPING ==
  ("TIMESTAMP" :> 0) @@ ("EMAIL_ADDRESS" :> 1) @@ ("MUNISIPIU" :> 2)
  @@ ("NIVEL_ESKOLA" :> 3) @@ ("NARAN_ESKOLA" :> 4) @@ ("DIXIPLINA" :> 5)
  @@ ("TITULU_TOPIKU_ATIVIDADE" :> 6)
  @@ ("NARAN_KANORIN_1" :> 7) @@ ("NARAN_KANORIN_2" :> 14)
  @@ ("NARAN_KANORIN_3" :> 21)
  @@ ("SEKSU_1" :> 8) @@ ("SEKSU_2" :> 15) @@ ("SEKSU_3" :> 22)
  @@ ("IDADE_1" :> 9) @@ ("IDADE_2" :> 16) @@ ("IDADE_3" :> 23)
  @@ ("DOKUMENTUS" :> 28)

\* The same mapping with some logical fields absent.
AbsentKeys == {"TIMESTAMP", "DIXIPLINA", "DOKUMENTUS", "SEKSU_2", "IDADE_3"}

PartialMapping == [key \in (DOMAIN COLUMN_MAPPING) \ AbsentKeys |-> COLUMN_MAPPING[key]]

Mappings == {COLUMN_MAPPING, PartialMapping}

\* Cell texts.
cT0 == <<"t", "0">>
cDili == <<"D", "i", "l", "i">>
cBaucau == <<" ", "B", "a", "u", "c", "a", "u", "\t">>
cPri == <<"P", "r", "i">>
cSec == <<"S", "e", "c", " ">>
cEA == <<"E", "A">>
cEB == <<" ", "E", "B">>
cMat == <<"M", "a", "t">>
cArt == <<"A", "r", "t">>
cTX == <<"T", "X">>
cTY == <<"T", "Y">>
cDoc == <<"d", "1">>
cAna == <<"A", "n", "a">>
cBo == <<" ", "B", "o">>
cCy == <<"c", "y">>
cF == <<"F">>
cM == <<"M", " ">>
cBlank == <<>>
cSpace == <<" ">>
c8 == <<"8">>
c9 == <<"9">>
c10 == <<"1", "0">>
c8p7 == <<" ", "8", ".", "7", " ">>
cNeg5 == <<"-", "5">>
cInf == <<"i", "n", "f">>
c1e999 == <<"1", "e", "9", "9", "9">>
cNan == <<"n", "a", "n">>
cAbc == <<"a", "b", "c">>

NoSubject == <<cBlank, cBlank, cBlank>>

\* A full-width row laid out as COLUMN_MAPPING expects; s1..s3 are
\* <<name, sex, age>> triples.
MkRow(ts, mun, niv, esk, dix, top, s1, s2, s3, dok) ==
  [c \in 1..29 |->
     CASE c = 1 -> ts [] c = 3 -> mun [] c = 4 -> niv [] c = 5 -> esk
       [] c = 6 -> dix [] c = 7 -> top
       [] c = 8 -> s1[1] [] c = 9 -> s1[2] [] c = 10 -> s1[3]
       [] c = 15 -> s2[1] [] c = 16 -> s2[2] [] c = 17 -> s2[3]
       [] c = 22 -> s3[1] [] c = 23 -> s3[2] [] c = 24 -> s3[3]
       [] c = 29 -> dok [] OTHER -> cBlank]

\* The base row with its first subject replaced.
WithSubject(s1) == MkRow(cT0, cDili, cPri, cEA, cMat, cTX, s1, NoSubject, NoSubject, cDoc)

BaseRow == WithSubject(<<cAna, cF, c8>>)

\* Three slots, the middle one unnamed; cells with surrounding whitespace.
RichRow ==
  MkRow(cT0, cBaucau, cSec, cEB, cArt, cTY,
        <<cBo, cM, c9>>, <<cBlank, cF, c8>>, <<cCy, cF, c10>>, cDoc)

\* The rows the inputs are made of: well-formed rows, rows with blank,
\* whitespace-only and 'N/A' cells, rows without any named subject, an empty
\* slot between filled ones, every kind of age text, and short rows.
RowCatalog ==
  { BaseRow,
    RichRow,
    MkRow(cT0, cBlank, cPri, cEA, cMat, cTX, <<cAna, cF, c8>>, NoSubject, NoSubject, cDoc),
    MkRow(cT0, cDili, cBlank, cSpace, cBlank, cBlank, <<cAna, cM, c9>>, NoSubject, NoSubject, cDoc),
    MkRow(cT0, NA, cSec, cEA, cMat, cTX, <<cBo, cF, c8>>, NoSubject, NoSubject, cDoc),
    MkRow(cT0, cDili, cSec, cEB, cArt, cTY, NoSubject, NoSubject, NoSubject, cDoc),
    MkRow(cT0, cBaucau, cPri, cEA, cMat, cTX, <<cSpace, cF, c8>>, NoSubject, <<cCy, cM, c8p7>>, cDoc),
    WithSubject(<<cAna, cBlank, c8>>),
    WithSubject(<<cAna, NA, c8p7>>),
    WithSubject(<<cAna, cF, cNeg5>>),
    WithSubject(<<cAna, cF, cInf>>),
    WithSubject(<<cAna, cM, c1e999>>),
    WithSubject(<<cAna, cF, cNan>>),
    WithSubject(<<cBo, cM, cAbc>>),
    WithSubject(<<cAna, cF, cBlank>>),
    <<>>,
    SubSeq(BaseRow, 1, 3),
    SubSeq(RichRow, 1, 4),
    SubSeq(BaseRow, 1, 5),
    SubSeq(BaseRow, 1, 8) }

MaxRows == 2

\* Every sequence of at most n elements of S.
SeqsUpTo(S, n) == UNION {[1..m -> S] : m \in 0..n}

(***************************************************************************)
(* process_data                                                            *)
(***************************************************************************)

VARIABLES
  raw_data,                    \* argument: the rows
  column_mapping,              \* argument: logical field -> column index
  pc,                          \* "start", "row", "slot", "done", "raised"
  i,                           \* enumerate() index of the current row
  k,                           \* the current subject slot
  gender_counts, age_distribution,
  unique_municipalities_set, unique_disciplines_set, unique_topiku_set,
  municipality_chart_counts, discipline_chart_counts, school_level_counts,
  school_municipality_counts,
  processed_rows,
  timestamp, munisipiu, nivel_eskola, naran_eskola, dixiplina,
  topiku_atividade, dokumentus,  \* the shared fields of the current row
  naran_kanorin, seksu, idade,   \* the fields of the slot last processed
  summary,                     \* the returned dict, once pc = "done"
  exception,                   \* the exception that left process_data, or "none"
  main_pc,                     \* __main__: "fetch", "process", "generated", "except", "exit"
  fetch_result,                \* "none", "ok", or the exception the fetch raised
  printed,                     \* the messages printed to the operator
  html_output,                 \* <<>>, or <<the data the generated page embeds>>
  index_html,                  \* the report file: <<>> while not written
  page_pc,                     \* the page in a browser: "closed", "loading", "ready"
  dashboardData,               \* the data embedded in the page
  currentPage, rowsPerPage, currentSearchTerm,
  currentNivelEskolaFilter, currentMunisipiuFilter,
  prevDisabled, nextDisabled,  \* the disabled property of the two buttons
  currentPageSpan, totalPagesSpan,
  tableRows                    \* the ids of the records in the rendered table

inputs == <<raw_data, column_mapping>>

counters ==
  <<unique_municipalities_set, unique_disciplines_set, unique_topiku_set,
    municipality_chart_counts, discipline_chart_counts, school_level_counts,
    school_municipality_counts>>

subjects == <<gender_counts, age_distribution, processed_rows>>

shared ==
  <<timestamp, munisipiu, nivel_eskola, naran_eskola, dixiplina,
    topiku_atividade, dokumentus>>

slot == <<naran_kanorin, seksu, idade>>

main == <<main_pc, fetch_result, printed, html_output, index_html>>

page ==
  <<page_pc, dashboardData, currentPage, rowsPerPage, currentSearchTerm,
    currentNivelEskolaFilter, currentMunisipiuFilter, prevDisabled, nextDisabled,
    currentPageSpan, totalPagesSpan, tableRows>>

vars ==
  <<inputs, pc, i, k, counters, subjects, shared, slot, summary, exception, main,
    page>>

\* Mutant: the cell taken without .strip().
GetField_NoStrip(row, mapping, key, default) ==
  IF key \in DOMAIN mapping /\ Len(row) > mapping[key]
  THEN row[mapping[key] + 1]
  ELSE default

\* row[index].strip() if index is not None and len(row) > index else default
GetField(row, mapping, key, default) ==
  IF key \in DOMAIN mapping /\ Len(row) > mapping[key]
  THEN Strip(row[mapping[key] + 1])
  ELSE default

\* Mutant: the 'N/A' comparison left out.
Present_NoSentinel(value) == Truthy(value)

\* if value and value != 'N/A'
Present(value) == Truthy(value) /\ value # NA

\* if munisipiu != 'N/A' and naran_eskola != 'N/A'
CrossTabCounted(mun, school) == mun # NA /\ school # NA

\* school_municipality_counts[mun][school] += 1 on the nested defaultdict.
CrossInc(d, mun, school) == DictSet(d, mun, DictInc(DictGet(d, mun, <<>>), school))

\* Mutant: the id made of the row index alone.
RecordId_RowOnly(row, s) == IntToStr(row)

\* f"{i}-{k}"
RecordId(row, s) == IntToStr(row) \o <<"-">> \o IntToStr(s)

\* Mutant: the tenths cut off instead of rounded.
Percentage_Truncated(count, total) ==
  LET tenths == (count * 1000) \div total
  IN NatToStr(tenths \div 10) \o <<".">> \o NatToStr(tenths % 10) \o <<"%">>

\* f"{(count / total * 100):.1f}%"; the quotient is rounded to the nearest
\* tenth, a tie (which needs a total that is a multiple of 16) to the even one.
Percentage(count, total) ==
  LET q      == (count * 1000) \div total
      r      == (count * 1000) % total
      tenths == IF 2 * r > total \/ (2 * r = total /\ q % 2 = 1) THEN q + 1 ELSE q
  IN NatToStr(tenths \div 10) \o <<".">> \o NatToStr(tenths % 10) \o <<"%">>

TopN == 10

\* Mutant: sorted ascending and then reversed, which also reverses the equal
\* counts.
TopByCount_Reversed(counts) ==
  LET asc == StableSort(counts, [h \in 1..Len(counts) |->
                                  [j \in 1..Len(counts) |-> counts[h][2] < counts[j][2]]])
  IN Take([j \in 1..Len(asc) |-> asc[Len(asc) + 1 - j]], TopN)

\* sorted(counts.items(), key=lambda item: item[1], reverse=True)[:10]
TopByCount(counts) ==
  Take(StableSort(counts, [h \in 1..Len(counts) |->
                             [j \in 1..Len(counts) |-> counts[h][2] > counts[j][2]]]),
       TopN)

\* Mutant: the empty result without the "All" filter options.
EmptySummary_NoAll ==
  [ totalMunicipality |-> 0,
    municipalityChartData |-> [labels |-> <<>>, data |-> <<>>],
    totalGender |-> 0,
    genderChartData |-> [labels |-> <<>>, data |-> <<>>, percentages |-> <<>>],
    ageDistribution |-> <<>>,
    ageChartData |-> [labels |-> <<>>, data |-> <<>>],
    schoolLevelCounts |-> <<>>,
    schoolLevelChartData |-> [labels |-> <<>>, data |-> <<>>],
    schoolMunicipalityTableData |-> <<>>,
    totalDiscipline |-> 0,
    disciplineCounts |-> <<>>,
    disciplineChartData |-> [labels |-> <<>>, data |-> <<>>],
    totalTopiku |-> 0,
    allNivelEskolaOptions |-> <<>>,
    allMunisipiuOptions |-> <<>>,
    detailedTableData |-> <<>>,
    municipalityPieChartData |-> [labels |-> <<>>, data |-> <<>>] ]

\* Mutant: the empty result without the key added last to the populated one.
EmptySummary_NoPieChart ==
  [ totalMunicipality |-> 0,
    municipalityChartData |-> [labels |-> <<>>, data |-> <<>>],
    totalGender |-> 0,
    genderChartData |-> [labels |-> <<>>, data |-> <<>>, percentages |-> <<>>],
    ageDistribution |-> <<>>,
    ageChartData |-> [labels |-> <<>>, data |-> <<>>],
    schoolLevelCounts |-> <<>>,
    schoolLevelChartData |-> [labels |-> <<>>, data |-> <<>>],
    schoolMunicipalityTableData |-> <<>>,
    totalDiscipline |-> 0,
    disciplineCounts |-> <<>>,
    disciplineChartData |-> [labels |-> <<>>, data |-> <<>>],
    totalTopiku |-> 0,
    allNivelEskolaOptions |-> <<All>>,
    allMunisipiuOptions |-> <<All>>,
    detailedTableData |-> <<>> ]

\* The literal returned for empty raw_data.
EmptySummary ==
  [ totalMunicipality |-> 0,
    municipalityChartData |-> [labels |-> <<>>, data |-> <<>>],
    totalGender |-> 0,
    genderChartData |-> [labels |-> <<>>, data |-> <<>>, percentages |-> <<>>],
    ageDistribution |-> <<>>,
    ageChartData |-> [labels |-> <<>>, data |-> <<>>],
    schoolLevelCounts |-> <<>>,
    schoolLevelChartData |-> [labels |-> <<>>, data |-> <<>>],
    schoolMunicipalityTableData |-> <<>>,
    totalDiscipline |-> 0,
    disciplineCounts |-> <<>>,
    disciplineChartData |-> [labels |-> <<>>, data |-> <<>>],
    totalTopiku |-> 0,
    allNivelEskolaOptions |-> <<All>>,
    allMunisipiuOptions |-> <<All>>,
    detailedTableData |-> <<>>,
    municipalityPieChartData |-> [labels |-> <<>>, data |-> <<>>] ]

\* Mutant: the number of gender categories instead of the sum of their tallies.
TotalGendersCount_Categories(genders) == Len(genders)

\* total_genders_count = sum(gender_counts.values())
TotalGendersCount(genders) == SumSeq(DictValues(genders))

\* gender_chart_labels, gender_chart_data, gender_percentages
GenderChart(genders) ==
  LET labels == SortedStrs(DictKeys(genders))
      data   == [j \in 1..Len(labels) |-> DictAt(genders, labels[j])]
      total  == SumSeq(data)
  IN [labels |-> labels, data |-> data,
      percentages |-> IF total > 0
                      THEN [j \in 1..Len(data) |-> Percentage(data[j], total)]
                      ELSE <<>>]

\* Mutant: the keys sorted as strings.
AgeChart_Lexicographic(ages) ==
  LET labels == SortedStrs(DictKeys(ages))
  IN [labels |-> labels, data |-> [j \in 1..Len(labels) |-> DictAt(ages, labels[j])]]

\* age_chart_labels, age_chart_data
AgeChart(ages) ==
  LET keys   == DictKeys(ages)
      nums   == SortedInts([j \in 1..Len(keys) |-> StrToInt(keys[j])])
  IN [labels |-> [j \in 1..Len(nums) |-> IntToStr(nums[j])],
      data   |-> [j \in 1..Len(nums) |-> DictAt(ages, IntToStr(nums[j]))]]

\* school_level_chart_labels, school_level_chart_data
SchoolLevelChart(levels) ==
  [labels |-> SortedStrs(DictKeys(levels)), data |-> DictValues(levels)]

\* Mutant: the data taken in the dict's insertion order, beside sorted labels.
MunicipalityChart_Unaligned(counts) ==
  [labels |-> SortedStrs(DictKeys(counts)), data |-> DictValues(counts)]

\* municipality_chart_labels, municipality_chart_data
MunicipalityChart(counts) ==
  LET labels == SortedStrs(DictKeys(counts))
  IN [labels |-> labels, data |-> [j \in 1..Len(labels) |-> DictAt(counts, labels[j])]]

\* labels and data of a top-10 chart
TopChart(counts) ==
  LET top == TopByCount(counts)
  IN [labels |-> DictKeys(top), data |-> DictValues(top)]

\* The rows of the nested dict, one per (mun, school), in dict order.
RECURSIVE CrossRows(_)
CrossRows(d) ==
  IF d = <<>> THEN <<>>
  ELSE LET mun     == d[1][1]
           schools == d[1][2]
       IN [j \in 1..Len(schools) |->
             [Munisipiu |-> mun, Naran_Eskola |-> schools[j][1], Total |-> schools[j][2]]]
          \o CrossRows(Tail(d))

\* school_municipality_table_data, sorted by (Munisipiu, Naran Eskola)
SchoolMunicipalityTable(d) ==
  LET rows == CrossRows(d)
      lt(a, b) == \/ StrLess(a.Munisipiu, b.Munisipiu)
                  \/ /\ a.Munisipiu = b.Munisipiu
                     /\ StrLess(a.Naran_Eskola, b.Naran_Eskola)
  IN StableSort(rows, [h \in 1..Len(rows) |-> [j \in 1..Len(rows) |-> lt(rows[h], rows[j])]])

\* Mutant: the distinct values left in order of first appearance.
FilterOptions_Unsorted(values) == <<All>> \o Unique(values)

\* sorted(df[column].unique().tolist()) if column in df.columns else [],
\* then insert(0, 'All'); values is the column of the detail records.
FilterOptions(values) == <<All>> \o SortedStrs(Unique(values))

(***************************************************************************)
(* Inputs with more distinct municipalities and disciplines than the       *)
(* top-10 charts keep                                                      *)
(***************************************************************************)

\* Twelve names, not in sorted order.
TopNames ==
  << <<"T">>, <<"B">>, <<"S">>, <<"A">>, <<"P">>, <<"D">>,
     <<"N">>, <<"E">>, <<"M">>, <<"F">>, <<"L">>, <<"I">> >>

\* A short row: municipality TopNames[j], discipline the j-th name from the
\* end, one named subject without sex and age cells.
TopRow(j) ==
  <<cT0, cBlank, TopNames[j], cPri, cEA, TopNames[Len(TopNames) + 1 - j], cTX, cAna>>

\* One row for each of the first TopN + 1 names.
TopBase == [j \in 1..(TopN + 1) |-> TopRow(j)]

\* Rows that repeat a name of TopBase or bring one more name.
TopExtras == {TopRow(3), TopRow(7), TopRow(TopN + 1), TopRow(TopN + 2)}

MaxExtra == 1

\* TopBase with at most MaxExtra rows before it and after it.
TopInputs ==
  {pre \o TopBase \o post : pre \in SeqsUpTo(TopExtras, MaxExtra),
                            post \in SeqsUpTo(TopExtras, MaxExtra)}

\* rowsPerPage: the number of rows of a page, or 'All'.
RowsNum(n) == [all |-> FALSE, n |-> n]

RowsAll == [all |-> TRUE, n |-> 0]

\* Rows with the school levels 'Pri' and 'Sec ' and with a blank one.
LevelRows ==
  { BaseRow,
    RichRow,
    MkRow(cT0, cDili, cBlank, cSpace, cBlank, cBlank, <<cAna, cM, c9>>, NoSubject, NoSubject, cDoc) }

MaxLevelRows == 3

\* Inputs long enough for school levels to differ in count and in the order
\* of their first occurrence.
LevelInputs == SeqsUpTo(LevelRows, MaxLevelRows)

\* The script before it calls fetch_google_sheet_data, its locals empty.
ScriptStart ==
  /\ pc = "start"
  /\ i = 0
  /\ k = 1
  /\ gender_counts = <<>>
  /\ age_distribution = <<>>
  /\ unique_municipalities_set = {}
  /\ unique_disciplines_set = {}
  /\ unique_topiku_set = {}
  /\ municipality_chart_counts = <<>>
  /\ discipline_chart_counts = <<>>
  /\ school_level_counts = <<>>
  /\ school_municipality_counts = <<>>
  /\ processed_rows = <<>>
  /\ timestamp = NA /\ munisipiu = NA /\ nivel_eskola = NA /\ naran_eskola = NA
  /\ dixiplina = NA /\ topiku_atividade = NA /\ dokumentus = NA
  /\ naran_kanorin = <<>> /\ seksu = <<>> /\ idade = <<>>
  /\ summary = <<>>
  /\ exception = "none"
  /\ main_pc = "fetch"
  /\ fetch_result = "none"
  /\ printed = {}
  /\ html_output = <<>>
  /\ index_html = <<>>

\* The script's values for the elements of a page and for its variables,
\* before the page's script has run.
PageAsWritten ==
  /\ currentPage = 1
  /\ rowsPerPage = RowsNum(10)
  /\ currentSearchTerm = <<>>
  /\ currentNivelEskolaFilter = All
  /\ currentMunisipiuFilter = All
  /\ prevDisabled = FALSE
  /\ nextDisabled = FALSE
  /\ currentPageSpan = 1
  /\ totalPagesSpan = 1
  /\ tableRows = <<>>

Init ==
  /\ raw_data \in SeqsUpTo(RowCatalog, MaxRows) \cup TopInputs \cup LevelInputs
  /\ column_mapping \in Mappings
  /\ ScriptStart
  /\ page_pc = "closed"
  /\ dashboardData = <<>>
  /\ PageAsWritten

\* if not raw_data: return {...}
ReturnEmpty ==
  /\ main_pc = "process"
  /\ UNCHANGED <<main, page>>
  /\ pc = "start"
  /\ raw_data = <<>>
  /\ summary' = EmptySummary
  /\ pc' = "done"
  /\ UNCHANGED <<inputs, i, k, counters, subjects, shared, slot, exception>>

\* processed_rows = []; the for loop is entered
EnterLoop ==
  /\ main_pc = "process"
  /\ UNCHANGED <<main, page>>
  /\ pc = "start"
  /\ raw_data # <<>>
  /\ processed_rows' = <<>>
  /\ pc' = "row"
  /\ UNCHANGED <<inputs, i, k, counters, gender_counts, age_distribution,
                 shared, slot, summary, exception>>

\* One iteration of the row loop up to the slot loop: the shared fields of
\* row i are extracted and the per-submission tallies updated.
\* Mutant: the level's count set to one instead of increased by one.
TallyLevel_Overwrite(counts, niv) ==
  IF Present(niv) THEN DictSet(counts, niv, 1) ELSE counts

\* if nivel_eskola and nivel_eskola != 'N/A':
\*     school_level_counts[nivel_eskola] = school_level_counts.get(nivel_eskola, 0) + 1
TallyLevel(counts, niv) ==
  IF Present(niv) THEN DictInc(counts, niv) ELSE counts

RowShared ==
  /\ main_pc = "process"
  /\ UNCHANGED <<main, page>>
  /\ pc = "row"
  /\ i < Len(raw_data)
  /\ LET row == raw_data[i + 1]
         f(key) == GetField(row, column_mapping, key, NA)
         mun == f("MUNISIPIU")
         niv == f("NIVEL_ESKOLA")
         esk == f("NARAN_ESKOLA")
         dix == f("DIXIPLINA")
         top == f("TITULU_TOPIKU_ATIVIDADE")
     IN /\ timestamp' = f("TIMESTAMP")
        /\ munisipiu' = mun
        /\ nivel_eskola' = niv
        /\ naran_eskola' = esk
        /\ dixiplina' = dix
        /\ topiku_atividade' = top
        /\ dokumentus' = f("DOKUMENTUS")
        /\ unique_municipalities_set' =
             IF Present(mun) THEN unique_municipalities_set \cup {mun}
             ELSE unique_municipalities_set
        /\ municipality_chart_counts' =
             IF Present(mun) THEN DictInc(municipality_chart_counts, mun)
             ELSE municipality_chart_counts
        /\ unique_disciplines_set' =
             IF Present(dix) THEN unique_disciplines_set \cup {dix}
             ELSE unique_disciplines_set
        /\ discipline_chart_counts' =
             IF Present(dix) THEN DictInc(discipline_chart_counts, dix)
             ELSE discipline_chart_counts
        /\ unique_topiku_set' =
             IF Present(top) THEN unique_topiku_set \cup {top} ELSE unique_topiku_set
        /\ school_level_counts' = TallyLevel(school_level_counts, niv)
        /\ school_municipality_counts' =
             IF CrossTabCounted(mun, esk)
             THEN CrossInc(school_municipality_counts, mun, esk)
             ELSE school_municipality_counts
  /\ k' = 1
  /\ pc' = "slot"
  /\ UNCHANGED <<inputs, i, subjects, slot, summary, exception>>

\* Mutant: the school level and the school name written to each other's key.
DetailRecord_Swapped(row, s, name, sex, age) ==
  [ id |-> RecordId(row, s),
    Timestamp |-> timestamp,
    Munisipiu |-> munisipiu,
    Nivel_Eskola |-> naran_eskola,
    Naran_Eskola |-> nivel_eskola,
    Naran_Kanorin |-> name,
    Seksu |-> IF Truthy(sex) THEN sex ELSE NA,
    Idade |-> IF Truthy(age) THEN age ELSE NA,
    Dixiplina |-> dixiplina,
    Titulu_Topiku |-> topiku_atividade,
    Dokumentus |-> dokumentus ]

\* The detail record of slot s of the current row.
DetailRecord(row, s, name, sex, age) ==
  [ id |-> RecordId(row, s),
    Timestamp |-> timestamp,
    Munisipiu |-> munisipiu,
    Nivel_Eskola |-> nivel_eskola,
    Naran_Eskola |-> naran_eskola,
    Naran_Kanorin |-> name,
    Seksu |-> IF Truthy(sex) THEN sex ELSE NA,
    Idade |-> IF Truthy(age) THEN age ELSE NA,
    Dixiplina |-> dixiplina,
    Titulu_Topiku |-> topiku_atividade,
    Dokumentus |-> dokumentus ]

\* Mutant: the name compared with 'N/A' instead of tested for emptiness.
EmitsRecord_NotSentinel(name) == name # NA

\* if naran_kanorin:
EmitsRecord(name) == Truthy(name)

\* One iteration of the slot loop for slot k of row i.  int(float(idade))
\* raising OverflowError is not caught by except (ValueError, TypeError):
\* it leaves process_data.
Slot ==
  /\ main_pc = "process"
  /\ UNCHANGED <<main, page>>
  /\ pc = "slot"
  /\ LET row  == raw_data[i + 1]
         name == GetField(row, column_mapping, NameKey(k), <<>>)
         sex  == GetField(row, column_mapping, SexKey(k), <<>>)
         age  == GetField(row, column_mapping, AgeKey(k), <<>>)
         conv == IntOfFloat(age)
         genders == IF Present(sex) THEN DictInc(gender_counts, sex) ELSE gender_counts
     IN /\ naran_kanorin' = name
        /\ seksu' = sex
        /\ idade' = age
        /\ IF ~EmitsRecord(name)
           THEN /\ UNCHANGED <<subjects, exception>>
                /\ IF k < NumSlots
                   THEN k' = k + 1 /\ UNCHANGED <<i, pc>>
                   ELSE k' = 1 /\ i' = i + 1 /\ pc' = "row"
           ELSE IF Present(age) /\ conv.exc \notin {"none", "ValueError", "TypeError"}
           THEN /\ gender_counts' = genders
                /\ exception' = conv.exc
                /\ pc' = "raised"
                /\ UNCHANGED <<age_distribution, processed_rows, i, k>>
           ELSE /\ gender_counts' = genders
                /\ age_distribution' =
                     IF Present(age) /\ conv.exc = "none"
                     THEN DictInc(age_distribution, IntToStr(conv.val))
                     ELSE age_distribution
                /\ processed_rows' =
                     Append(processed_rows, DetailRecord(i, k, name, sex, age))
                /\ UNCHANGED exception
                /\ IF k < NumSlots
                   THEN k' = k + 1 /\ UNCHANGED <<i, pc>>
                   ELSE k' = 1 /\ i' = i + 1 /\ pc' = "row"
  /\ UNCHANGED <<inputs, counters, shared, summary>>

\* The dict returned after the loop.
BuildSummary ==
  [ totalMunicipality |-> Cardinality(unique_municipalities_set),
    municipalityChartData |-> MunicipalityChart(municipality_chart_counts),
    totalGender |-> TotalGendersCount(gender_counts),
    genderChartData |-> GenderChart(gender_counts),
    ageDistribution |-> age_distribution,
    ageChartData |-> AgeChart(age_distribution),
    schoolLevelCounts |-> school_level_counts,
    schoolLevelChartData |-> SchoolLevelChart(school_level_counts),
    schoolMunicipalityTableData |-> SchoolMunicipalityTable(school_municipality_counts),
    totalDiscipline |-> Cardinality(unique_disciplines_set),
    disciplineCounts |-> discipline_chart_counts,
    disciplineChartData |-> TopChart(discipline_chart_counts),
    totalTopiku |-> Cardinality(unique_topiku_set),
    allNivelEskolaOptions |->
      FilterOptions([j \in 1..Len(processed_rows) |-> processed_rows[j].Nivel_Eskola]),
    allMunisipiuOptions |->
      FilterOptions([j \in 1..Len(processed_rows) |-> processed_rows[j].Munisipiu]),
    detailedTableData |-> processed_rows,
    municipalityPieChartData |-> TopChart(municipality_chart_counts) ]

\* The loop is over: the summary is built and returned.
Summarize ==
  /\ main_pc = "process"
  /\ UNCHANGED <<main, page>>
  /\ pc = "row"
  /\ i = Len(raw_data)
  /\ summary' = BuildSummary
  /\ pc' = "done"
  /\ UNCHANGED <<inputs, i, k, counters, subjects, shared, slot, exception>>

(***************************************************************************)
(* fetch_google_sheet_data and __main__                                    *)
(*                                                                         *)
(* raw_data is chosen by Init as result['values'][1:], the rows of the     *)
(* sheet after its header (empty when the sheet has no values or only the  *)
(* header); a successful fetch hands it to process_data.  __main__ passes  *)
(* COLUMN_MAPPING; process_data is run here with either mapping.           *)
(***************************************************************************)

process == <<inputs, pc, i, k, counters, subjects, shared, slot, summary, exception>>

MsgFetched == "Successfully fetched rows of raw data"
MsgNoData == "No data or only headers found in the Google Sheet."
MsgHttpError == "Error fetching data: HTTP error!"
MsgRequestError == "Network or request error"
MsgFailed == "An error occurred during dashboard generation"
MsgGenerated == "Dashboard generated successfully"

FetchErrors == {"HTTPError", "RequestException"}

\* requests.get succeeded: the rows after the header are returned.
FetchOk ==
  /\ main_pc = "fetch"
  /\ fetch_result' = "ok"
  /\ printed' = printed \cup {IF raw_data # <<>> THEN MsgFetched ELSE MsgNoData}
  /\ main_pc' = "process"
  /\ UNCHANGED page
  /\ UNCHANGED <<process, html_output, index_html>>

\* Mutant: the HTTP error is printed and an empty list returned instead of
\* the exception being raised again.
FetchHttpError_Swallowed ==
  /\ main_pc = "fetch"
  /\ fetch_result' = "HTTPError"
  /\ printed' = printed \cup {MsgHttpError}
  /\ raw_data' = <<>>
  /\ main_pc' = "process"
  /\ UNCHANGED page
  /\ UNCHANGED <<column_mapping, pc, i, k, counters, subjects, shared, slot,
                 summary, exception, html_output, index_html>>

\* except requests.exceptions.HTTPError: print, raise
FetchHttpError ==
  /\ main_pc = "fetch"
  /\ fetch_result' = "HTTPError"
  /\ printed' = printed \cup {MsgHttpError}
  /\ main_pc' = "except"
  /\ UNCHANGED page
  /\ UNCHANGED <<process, html_output, index_html>>

\* except requests.exceptions.RequestException: print, raise
FetchRequestError ==
  /\ main_pc = "fetch"
  /\ fetch_result' = "RequestException"
  /\ printed' = printed \cup {MsgRequestError}
  /\ main_pc' = "except"
  /\ UNCHANGED page
  /\ UNCHANGED <<process, html_output, index_html>>

\* html_output = generate_html_dashboard(dashboard_results, ...)
GenerateHtml ==
  /\ main_pc = "process"
  /\ pc = "done"
  /\ html_output' = <<summary>>
  /\ main_pc' = "generated"
  /\ UNCHANGED page
  /\ UNCHANGED <<process, fetch_result, printed, index_html>>

\* with open("index.html", "w") as f: f.write(html_output)
WriteReport ==
  /\ main_pc = "generated"
  /\ index_html' = html_output
  /\ printed' = printed \cup {MsgGenerated}
  /\ main_pc' = "exit"
  /\ UNCHANGED page
  /\ UNCHANGED <<process, fetch_result, html_output>>

\* except Exception as e: print(...), for an exception of the fetch or of
\* process_data
MainExcept ==
  /\ main_pc = "except" \/ (main_pc = "process" /\ pc = "raised")
  /\ printed' = printed \cup {MsgFailed}
  /\ main_pc' = "exit"
  /\ UNCHANGED page
  /\ UNCHANGED <<process, fetch_result, html_output, index_html>>

Next ==
  \/ FetchOk \/ FetchHttpError \/ FetchRequestError
  \/ ReturnEmpty \/ EnterLoop \/ RowShared \/ Slot \/ Summarize
  \/ GenerateHtml \/ WriteReport \/ MainExcept

Spec == Init /\ [][Next]_vars

(***************************************************************************)
(* The detail table of the generated page                                  *)
(*                                                                         *)
(* The page is one written by an earlier run of the script and opened in a *)
(* browser; each event handler runs to its end before the next event.      *)
(***************************************************************************)

\* String.prototype.toLowerCase() on the letters of the cells.
ToLowerCase(s) ==
  [j \in 1..Len(s) |->
     CASE s[j] = "A" -> "a" [] s[j] = "B" -> "b" [] s[j] = "D" -> "d"
       [] s[j] = "E" -> "e" [] s[j] = "F" -> "f" [] s[j] = "I" -> "i"
       [] s[j] = "L" -> "l" [] s[j] = "M" -> "m" [] s[j] = "N" -> "n"
       [] s[j] = "O" -> "o" [] s[j] = "P" -> "p" [] s[j] = "S" -> "s"
       [] s[j] = "T" -> "t" [] s[j] = "X" -> "x" [] s[j] = "Y" -> "y"
       [] OTHER -> s[j]]

\* String.prototype.includes()
Includes(s, t) ==
  \E a \in 0..(Len(s) - Len(t)) : SubSeq(s, a + 1, a + Len(t)) = t

\* Array.prototype.slice(start, end)
Slice(s, start, end) ==
  LET from == IF start < 0 THEN (IF Len(s) + start < 0 THEN 0 ELSE Len(s) + start)
              ELSE IF start > Len(s) THEN Len(s) ELSE start
      to   == IF end < 0 THEN (IF Len(s) + end < 0 THEN 0 ELSE Len(s) + end)
              ELSE IF end > Len(s) THEN Len(s) ELSE end
  IN IF from < to THEN SubSeq(s, from + 1, to) ELSE <<>>

\* parseInt() of an option value
ParseInt(s) == DigitsToNat(s)

\* The values of the options of the rowsPerPage select.
RowsPerPageOptions ==
  << <<"1", "0">>, <<"2", "5">>, <<"5", "0">>, <<"1", "0", "0">>, All >>

\* Object.values(row).some(value => String(value).toLowerCase().includes(term))
MatchesSearch(row, term) ==
  \E f \in DOMAIN row : Includes(ToLowerCase(row[f]), ToLowerCase(term))

\* filteredData of renderDetailedTable
FilteredData(data, nivel, mun, term) ==
  LET byLevel == IF nivel # All
                 THEN SelectSeq(data, LAMBDA row : row.Nivel_Eskola = nivel) ELSE data
      byMun   == IF mun # All
                 THEN SelectSeq(byLevel, LAMBDA row : row.Munisipiu = mun) ELSE byLevel
  IN IF term # <<>> THEN SelectSeq(byMun, LAMBDA row : MatchesSearch(row, term))
     ELSE byMun

\* Mutant: Math.floor in place of Math.ceil.
TotalPages_Floor(n, rows) == IF rows.all THEN 1 ELSE n \div rows.n

\* rowsPerPage === 'All' ? 1 : Math.ceil(length / rowsPerPage)
TotalPages(n, rows) ==
  IF rows.all THEN 1
  ELSE IF n % rows.n = 0 THEN n \div rows.n ELSE (n \div rows.n) + 1

RECURSIVE RenderDetailedTable(_, _, _, _, _)
RECURSIVE UpdatePaginationControls(_, _, _, _, _, _, _)

\* updatePaginationControls, with what renderDetailedTable has put in the
\* table; the result is the page's state when the call returns.
UpdatePaginationControls(cp, rows, nivel, mun, term, totalPages, shown) ==
  IF cp > totalPages /\ totalPages > 0
  THEN RenderDetailedTable(totalPages, rows, nivel, mun, term)
  ELSE [ currentPage |-> IF totalPages = 0 THEN 0 ELSE cp,
         currentPageSpan |-> IF totalPages = 0 THEN 0 ELSE cp,
         totalPagesSpan |-> totalPages,
         prevDisabled |-> (cp = 1),
         nextDisabled |-> (cp = totalPages \/ totalPages = 0 \/ rows.all),
         tableRows |-> shown ]

\* renderDetailedTable with currentPage = cp and the given settings
RenderDetailedTable(cp, rows, nivel, mun, term) ==
  LET filteredData == FilteredData(dashboardData.detailedTableData, nivel, mun, term)
      totalPages   == TotalPages(Len(filteredData), rows)
      startIndex   == IF rows.all THEN 0 ELSE (cp - 1) * rows.n
      endIndex     == IF rows.all THEN Len(filteredData) ELSE startIndex + rows.n
      paginated    == Slice(filteredData, startIndex, endIndex)
  IN UpdatePaginationControls(cp, rows, nivel, mun, term, totalPages,
                              [j \in 1..Len(paginated) |-> paginated[j].id])

\* The page's state after a render.
Rendered(r) ==
  /\ currentPage' = r.currentPage
  /\ currentPageSpan' = r.currentPageSpan
  /\ totalPagesSpan' = r.totalPagesSpan
  /\ prevDisabled' = r.prevDisabled
  /\ nextDisabled' = r.nextDisabled
  /\ tableRows' = r.tableRows

\* The j-th detail record of a sheet whose rows have one named subject each.
PageRecord(j) ==
  [ id |-> RecordId(j - 1, 1),
    Timestamp |-> cT0,
    Munisipiu |-> IF j % 2 = 1 THEN cDili ELSE Strip(cBaucau),
    Nivel_Eskola |-> IF j % 3 = 0 THEN Strip(cSec) ELSE cPri,
    Naran_Eskola |-> cEA,
    Naran_Kanorin |-> IF j % 4 = 0 THEN cBo ELSE cAna,
    Seksu |-> cF,
    Idade |-> c8,
    Dixiplina |-> cMat,
    Titulu_Topiku |-> cTX,
    Dokumentus |-> cDoc ]

MaxRecords == 26

\* The part of dashboardData the detail table reads, for n detail records.
Embedded(n) ==
  LET records == [j \in 1..n |-> PageRecord(j)]
  IN [ detailedTableData |-> records,
       allNivelEskolaOptions |->
         FilterOptions([j \in 1..n |-> records[j].Nivel_Eskola]),
       allMunisipiuOptions |->
         FilterOptions([j \in 1..n |-> records[j].Munisipiu]) ]

\* The texts typed into the search box: none, part of a name in another
\* case, and a text no record has.
SearchTerms == {<<>>, <<"B", "O">>, <<"9", "9">>}

PageInit ==
  /\ raw_data = <<>>
  /\ column_mapping = COLUMN_MAPPING
  /\ ScriptStart
  /\ page_pc = "loading"
  /\ dashboardData \in {Embedded(n) : n \in 0..MaxRecords}
  /\ PageAsWritten

\* DOMContentLoaded: renderFilterOptions() resets the filters and the page
\* and renders; the handler ends with another renderDetailedTable().
LoadPage ==
  /\ page_pc = "loading"
  /\ LET first == RenderDetailedTable(1, rowsPerPage, All, All, currentSearchTerm)
     IN Rendered(RenderDetailedTable(first.currentPage, rowsPerPage, All, All,
                                     currentSearchTerm))
  /\ currentNivelEskolaFilter' = All
  /\ currentMunisipiuFilter' = All
  /\ page_pc' = "ready"
  /\ UNCHANGED <<process, main, dashboardData, rowsPerPage, currentSearchTerm>>

\* 'change' on nivelEskolaFilter
ChangeNivelEskola ==
  /\ page_pc = "ready"
  /\ \E value \in Range(dashboardData.allNivelEskolaOptions) :
       /\ currentNivelEskolaFilter' = value
       /\ Rendered(RenderDetailedTable(1, rowsPerPage, value, currentMunisipiuFilter,
                                       currentSearchTerm))
  /\ UNCHANGED <<process, main, page_pc, dashboardData, rowsPerPage,
                 currentSearchTerm, currentMunisipiuFilter>>

\* 'change' on munisipiuFilter
ChangeMunisipiu ==
  /\ page_pc = "ready"
  /\ \E value \in Range(dashboardData.allMunisipiuOptions) :
       /\ currentMunisipiuFilter' = value
       /\ Rendered(RenderDetailedTable(1, rowsPerPage, currentNivelEskolaFilter, value,
                                       currentSearchTerm))
  /\ UNCHANGED <<process, main, page_pc, dashboardData, rowsPerPage,
                 currentSearchTerm, currentNivelEskolaFilter>>

\* 'input' on detailedTableSearch
SearchInput ==
  /\ page_pc = "ready"
  /\ \E value \in SearchTerms :
       /\ currentSearchTerm' = value
       /\ Rendered(RenderDetailedTable(1, rowsPerPage, currentNivelEskolaFilter,
                                       currentMunisipiuFilter, value))
  /\ UNCHANGED <<process, main, page_pc, dashboardData, rowsPerPage,
                 currentNivelEskolaFilter, currentMunisipiuFilter>>

\* 'change' on rowsPerPage
ChangeRowsPerPage ==
  /\ page_pc = "ready"
  /\ \E value \in Range(RowsPerPageOptions) :
       LET rows == IF value = All THEN RowsAll ELSE RowsNum(ParseInt(value))
       IN /\ rowsPerPage' = rows
          /\ Rendered(RenderDetailedTable(1, rows, currentNivelEskolaFilter,
                                          currentMunisipiuFilter, currentSearchTerm))
  /\ UNCHANGED <<process, main, page_pc, dashboardData, currentSearchTerm,
                 currentNivelEskolaFilter, currentMunisipiuFilter>>

\* 'click' on prevPage, while the button is enabled
ClickPrev ==
  /\ page_pc = "ready"
  /\ ~prevDisabled
  /\ IF currentPage > 1
     THEN Rendered(RenderDetailedTable(currentPage - 1, rowsPerPage,
                                       currentNivelEskolaFilter, currentMunisipiuFilter,
                                       currentSearchTerm))
     ELSE UNCHANGED <<currentPage, currentPageSpan, totalPagesSpan, prevDisabled,
                      nextDisabled, tableRows>>
  /\ UNCHANGED <<process, main, page_pc, dashboardData, rowsPerPage,
                 currentSearchTerm, currentNivelEskolaFilter, currentMunisipiuFilter>>

\* 'click' on nextPage, while the button is enabled; the handler counts the
\* pages of all the records, not of the filtered ones.
ClickNext ==
  /\ page_pc = "ready"
  /\ ~nextDisabled
  /\ IF currentPage < TotalPages(Len(dashboardData.detailedTableData), rowsPerPage)
     THEN Rendered(RenderDetailedTable(currentPage + 1, rowsPerPage,
                                       currentNivelEskolaFilter, currentMunisipiuFilter,
                                       currentSearchTerm))
     ELSE UNCHANGED <<currentPage, currentPageSpan, totalPagesSpan, prevDisabled,
                      nextDisabled, tableRows>>
  /\ UNCHANGED <<process, main, page_pc, dashboardData, rowsPerPage,
                 currentSearchTerm, currentNivelEskolaFilter, currentMunisipiuFilter>>

PageNext ==
  \/ LoadPage
  \/ ChangeNivelEskola \/ ChangeMunisipiu \/ SearchInput \/ ChangeRowsPerPage
  \/ ClickPrev \/ ClickNext

PageSpec == PageInit /\ [][PageNext]_vars

(***************************************************************************)
(* Properties                                                              *)
(***************************************************************************)

Done == pc = "done"

\* The raw cell of logical field key in row number r (1-based), or the
\* absence of one: the mapping lacks the field or the row is too short.
HasCell(r, key) ==
  key \in DOMAIN column_mapping /\ column_mapping[key] < Len(raw_data[r])

CellOf(r, key) == raw_data[r][column_mapping[key] + 1]

\* A text that stands for no value: blank, whitespace only, or 'N/A'.
MissingValue(v) == Strip(v) = <<>> \/ Strip(v) = NA

\* Field key of row r is missing: no cell, or a cell with a missing value.
MissingField(r, key) == ~HasCell(r, key) \/ MissingValue(CellOf(r, key))

\* The (row, slot) pairs whose name cell is present, in range and non-empty
\* after trimming.
NamedPairs ==
  {p \in (1..Len(raw_data)) \X Slots :
     HasCell(p[1], NameKey(p[2])) /\ Strip(CellOf(p[1], NameKey(p[2]))) # <<>>}

\* C1: process_data never raises, whatever strings the cells of a row hold:
\* no exception leaves the processing of a row.
C1_NeverRaises == exception = "none" /\ pc # "raised"

\* C2: in the returned summary no missing value (blank, whitespace only or
\* 'N/A') is a key, a chart label, a cross-tab municipality or school name, or
\* a filter option.
C2_NoMissingKeys ==
  Done =>
    \A v \in Range(summary.municipalityChartData.labels)
             \cup Range(summary.municipalityPieChartData.labels)
             \cup Range(summary.disciplineChartData.labels)
             \cup Range(DictKeys(summary.disciplineCounts))
             \cup Range(DictKeys(summary.schoolLevelCounts))
             \cup Range(summary.schoolLevelChartData.labels)
             \cup Range(summary.genderChartData.labels)
             \cup Range(DictKeys(summary.ageDistribution))
             \cup Range(summary.ageChartData.labels)
             \cup {row.Munisipiu : row \in Range(summary.schoolMunicipalityTableData)}
             \cup {row.Naran_Eskola : row \in Range(summary.schoolMunicipalityTableData)}
             \cup Range(summary.allNivelEskolaOptions)
             \cup Range(summary.allMunisipiuOptions) :
       ~MissingValue(v)

\* The decimal text of a non-negative integer.
IsNonNegativeDecimal(v) == v # <<>> /\ AllDigits(v)

\* C3: every key of ageDistribution and every label of ageChartData is the
\* decimal text of a non-negative integer.
C3_AgeKeysNonNegative ==
  Done =>
    \A v \in Range(DictKeys(summary.ageDistribution))
             \cup Range(summary.ageChartData.labels) :
       IsNonNegativeDecimal(v)

\* The submissions with both a municipality and a school name.
SubmissionsWithBoth ==
  {r \in 1..Len(raw_data) :
     ~MissingField(r, "MUNISIPIU") /\ ~MissingField(r, "NARAN_ESKOLA")}

CrossTabTotal ==
  SumSeq([j \in 1..Len(summary.schoolMunicipalityTableData) |->
            summary.schoolMunicipalityTableData[j].Total])

\* C4: the 'Total' values of schoolMunicipalityTableData sum to the number of
\* submissions with both a non-missing municipality and a non-missing school
\* name.
C4_CrossTabSum == Done => CrossTabTotal = Cardinality(SubmissionsWithBoth)

\* C5: the sum of genderChartData.data equals totalGender.
C5_GenderSum == Done => SumSeq(summary.genderChartData.data) = summary.totalGender

\* C5 witness: a summary with two gender labels and several subjects.
C5_Witness ==
  /\ Done
  /\ Len(summary.genderChartData.labels) = 2
  /\ summary.totalGender >= 3
  /\ SumSeq(summary.genderChartData.data) = summary.totalGender

\* C6 as stated: totalGender equals the number of detail records, one per
\* slot with a non-empty name.
C6_TotalIsRecordCount == Done => summary.totalGender = Len(summary.detailedTableData)

\* The detail records that carry a sex value (a missing one is shown as 'N/A').
RecordsWithSex ==
  {j \in 1..Len(summary.detailedTableData) : summary.detailedTableData[j].Seksu # NA}

\* C6 amended: totalGender counts subjects, not submissions: it equals the
\* number of detail records whose sex value is non-missing.
C6_TotalIsRecordsWithSex == Done => summary.totalGender = Cardinality(RecordsWithSex)

\* C6 witness: two submissions, three subjects, one of them without a sex value.
C6_Witness ==
  /\ Done
  /\ Len(raw_data) = 2
  /\ Len(summary.detailedTableData) = 3
  /\ summary.totalGender = 2

\* The (row, slot) pairs whose slot iteration is over.
SlotDone(p) ==
  CASE pc \in {"slot", "raised"} -> p[1] < i + 1 \/ (p[1] = i + 1 /\ p[2] < k)
    [] pc \in {"row", "done"} -> p[1] <= i
    [] OTHER -> FALSE

C8_EmptyInput ==
  (Done /\ raw_data = <<>>) =>
    /\ summary.totalMunicipality = 0 /\ summary.totalGender = 0
    /\ summary.totalDiscipline = 0 /\ summary.totalTopiku = 0
    /\ \A chart \in {summary.municipalityChartData, summary.genderChartData,
                     summary.ageChartData, summary.schoolLevelChartData,
                     summary.disciplineChartData, summary.municipalityPieChartData} :
         chart.labels = <<>> /\ chart.data = <<>>
    /\ summary.genderChartData.percentages = <<>>
    /\ summary.ageDistribution = <<>> /\ summary.schoolLevelCounts = <<>>
    /\ summary.disciplineCounts = <<>>
    /\ summary.schoolMunicipalityTableData = <<>>
    /\ summary.detailedTableData = <<>>
    /\ summary.allNivelEskolaOptions = <<All>>
    /\ summary.allMunisipiuOptions = <<All>>

\* C8 witness: process_data has returned for an empty row sequence.
C8_Witness == Done /\ raw_data = <<>> /\ DOMAIN summary # {}

\* v is cell with its leading and trailing whitespace removed.
TrimOf(cell, v) ==
  /\ \E a \in 0..Len(cell) : \E b \in a..Len(cell) :
       /\ v = SubSeq(cell, a + 1, b)
       /\ \A j \in 1..a : cell[j] \in Whitespace
       /\ \A j \in (b + 1)..Len(cell) : cell[j] \in Whitespace
  /\ v = <<>> \/ (v[1] \notin Whitespace /\ v[Len(v)] \notin Whitespace)

\* v is what field key of row r is to be extracted as.
ExtractedAs(r, key, v, sentinel) ==
  IF HasCell(r, key) THEN TrimOf(CellOf(r, key), v) ELSE v = sentinel

\* The row (1-based) whose shared fields are held, 0 before the first.
HeldRow == IF pc \in {"slot", "raised"} THEN i + 1 ELSE i

\* The <<row, slot>> whose subject fields are held, <<0, 0>> before the first.
HeldSlot ==
  CASE pc = "raised" -> <<i + 1, k>>
    [] pc = "slot" /\ k > 1 -> <<i + 1, k - 1>>
    [] pc \in {"slot", "row", "done"} /\ i >= 1 -> <<i, NumSlots>>
    [] OTHER -> <<0, 0>>

\* C9: every extracted field is the trimmed cell at the mapped index when the
\* mapping has the field and the index is within the row, and otherwise the
\* sentinel: 'N/A' for a shared field, empty for a subject's name, sex and age.
C9_FieldExtraction ==
  /\ HeldRow >= 1 =>
       /\ ExtractedAs(HeldRow, "TIMESTAMP", timestamp, NA)
       /\ ExtractedAs(HeldRow, "MUNISIPIU", munisipiu, NA)
       /\ ExtractedAs(HeldRow, "NIVEL_ESKOLA", nivel_eskola, NA)
       /\ ExtractedAs(HeldRow, "NARAN_ESKOLA", naran_eskola, NA)
       /\ ExtractedAs(HeldRow, "DIXIPLINA", dixiplina, NA)
       /\ ExtractedAs(HeldRow, "TITULU_TOPIKU_ATIVIDADE", topiku_atividade, NA)
       /\ ExtractedAs(HeldRow, "DOKUMENTUS", dokumentus, NA)
  /\ HeldSlot[1] >= 1 =>
       /\ ExtractedAs(HeldSlot[1], NameKey(HeldSlot[2]), naran_kanorin, <<>>)
       /\ ExtractedAs(HeldSlot[1], SexKey(HeldSlot[2]), seksu, <<>>)
       /\ ExtractedAs(HeldSlot[1], AgeKey(HeldSlot[2]), idade, <<>>)

\* C9 witness: of one row, a cell with surrounding whitespace was trimmed, a
\* field the mapping lacks and a field beyond the end of the row both gave
\* their sentinel.
C9_Witness ==
  /\ pc = "slot" /\ k = 2
  /\ HasCell(i + 1, "MUNISIPIU") /\ munisipiu # CellOf(i + 1, "MUNISIPIU")
  /\ munisipiu # <<>>
  /\ "TIMESTAMP" \notin DOMAIN column_mapping /\ timestamp = NA
  /\ "NARAN_KANORIN_1" \in DOMAIN column_mapping
  /\ Len(raw_data[i + 1]) <= column_mapping["NARAN_KANORIN_1"]
  /\ Len(raw_data[i + 1]) > 0
  /\ naran_kanorin = <<>>

\* s is "All" followed by the texts of the set vals in ascending order.
IsAllThenSorted(s, vals) ==
  /\ Len(s) = Cardinality(vals) + 1
  /\ s[1] = All
  /\ {s[j] : j \in 2..Len(s)} = vals
  /\ \A j \in 2..(Len(s) - 1) : StrLess(s[j], s[j + 1])

\* The value field key of row r is extracted as.
FieldValue(r, key) == IF HasCell(r, key) THEN Strip(CellOf(r, key)) ELSE NA

\* The submissions with at least one named subject.
SubmissionsWithSubject == {r \in 1..Len(raw_data) : \E s \in Slots : <<r, s>> \in NamedPairs}

ValuesOf(key) ==
  {FieldValue(r, key) : r \in 1..Len(raw_data)} \ {<<>>, NA}

\* The number of rows in which field key has value v.
RowCount(key, v) == Cardinality({r \in 1..Len(raw_data) : FieldValue(r, key) = v})

\* The first row in which field key has value v.
FirstRow(key, v) ==
  CHOOSE r \in 1..Len(raw_data) :
    FieldValue(r, key) = v /\ \A h \in 1..(r - 1) : FieldValue(h, key) # v

\* Value a is charted ahead of value b: it occurs in more rows, or in as many
\* and was met first.
Ahead(key, a, b) ==
  \/ RowCount(key, a) > RowCount(key, b)
  \/ RowCount(key, a) = RowCount(key, b) /\ FirstRow(key, a) < FirstRow(key, b)

IsTopTen(chart, key) ==
  /\ Len(chart.labels) = Len(chart.data)
  /\ Len(chart.labels) <= 10
  /\ Len(chart.labels) = 10 \/ Len(chart.labels) = Cardinality(ValuesOf(key))
  /\ \A j \in 1..Len(chart.labels) :
       chart.labels[j] \in ValuesOf(key) /\ chart.data[j] = RowCount(key, chart.labels[j])
  /\ \A j \in 1..(Len(chart.labels) - 1) : Ahead(key, chart.labels[j], chart.labels[j + 1])
  /\ \A v \in ValuesOf(key) \ Range(chart.labels) :
       \A j \in 1..Len(chart.labels) : Ahead(key, chart.labels[j], v)

\* C11: municipalityPieChartData and disciplineChartData each hold at most 10
\* entries, the values with the highest occurrence counts in descending count
\* order, values with equal counts in the order they were first met.
C11_TopTen ==
  Done =>
    /\ IsTopTen(summary.municipalityPieChartData, "MUNISIPIU")
    /\ IsTopTen(summary.disciplineChartData, "DIXIPLINA")

\* C11 witness: twelve municipalities, ten charted, the first with a higher
\* count than the second, the rest with equal counts.
C11_Witness ==
  /\ Done
  /\ Cardinality(ValuesOf("MUNISIPIU")) = 12
  /\ Len(summary.municipalityPieChartData.labels) = 10
  /\ summary.municipalityPieChartData.data[1] = 2
  /\ summary.municipalityPieChartData.data[2] = 1
  /\ Len(summary.disciplineChartData.labels) = 10

\* C13: if the fetch fails the report file is never written and the failure
\* is reported: index.html is written only after a successful fetch, a
\* returned summary and the generated page.
C13_NoReportOnFetchFailure ==
  /\ index_html # <<>> =>
       /\ fetch_result = "ok"
       /\ pc = "done"
       /\ html_output = <<summary>>
       /\ index_html = html_output
  /\ fetch_result \in FetchErrors =>
       /\ index_html = <<>>
       /\ html_output = <<>>
       /\ pc = "start"
       /\ printed \cap {MsgHttpError, MsgRequestError} # {}
       /\ main_pc = "exit" => MsgFailed \in printed

\* C13 witness: the run is over after an HTTP error, reported and without a
\* report file.
C13_Witness ==
  /\ main_pc = "exit"
  /\ fetch_result = "HTTPError"
  /\ index_html = <<>>
  /\ {MsgHttpError, MsgFailed} \subseteq printed

\* The number of named subjects in row r.
NamedIn(r) == Cardinality({s \in Slots : <<r, s>> \in NamedPairs})

\* C14: schoolLevelCounts has one key per non-missing school level of the
\* input, and its count is the number of rows with that level, whatever the
\* number of named subjects in those rows.
C14_LevelPerRow ==
  Done =>
    LET counts == summary.schoolLevelCounts
    IN /\ Range(DictKeys(counts)) = ValuesOf("NIVEL_ESKOLA")
       /\ Len(counts) = Cardinality(ValuesOf("NIVEL_ESKOLA"))
       /\ \A v \in ValuesOf("NIVEL_ESKOLA") : DictAt(counts, v) = RowCount("NIVEL_ESKOLA", v)

\* C14 witness: a level counted twice, for a row without any named subject
\* and a row with two.
C14_Witness ==
  /\ Done
  /\ \E v \in ValuesOf("NIVEL_ESKOLA") :
       /\ DictAt(summary.schoolLevelCounts, v) = 2
       /\ \E r1, r2 \in 1..Len(raw_data) :
            /\ FieldValue(r1, "NIVEL_ESKOLA") = v /\ NamedIn(r1) = 0
            /\ FieldValue(r2, "NIVEL_ESKOLA") = v /\ NamedIn(r2) = 2

\* Every label of the chart is a value of field key, charted with the number
\* of rows it occurs in.
CountsRows(chart, key) ==
  /\ Len(chart.data) = Len(chart.labels)
  /\ \A j \in 1..Len(chart.labels) :
       /\ chart.labels[j] \in ValuesOf(key)
       /\ chart.data[j] = RowCount(key, chart.labels[j])

\* C15: totalMunicipality, totalDiscipline and totalTopiku are the numbers of
\* distinct non-missing values of their fields over all rows, and the
\* municipality and discipline charts give each value the number of rows it
\* occurs in.
C15_TotalsAndChartCounts ==
  Done =>
    /\ summary.totalMunicipality = Cardinality(ValuesOf("MUNISIPIU"))
    /\ summary.totalDiscipline = Cardinality(ValuesOf("DIXIPLINA"))
    /\ summary.totalTopiku = Cardinality(ValuesOf("TITULU_TOPIKU_ATIVIDADE"))
    /\ CountsRows(summary.municipalityChartData, "MUNISIPIU")
    /\ Range(summary.municipalityChartData.labels) = ValuesOf("MUNISIPIU")
    /\ Len(summary.municipalityChartData.labels) = Cardinality(ValuesOf("MUNISIPIU"))
    /\ CountsRows(summary.disciplineChartData, "DIXIPLINA")

\* C15 witness: twelve rows with eleven municipalities, disciplines and one
\* topic; a municipality and a discipline occur twice.
C15_Witness ==
  /\ Done
  /\ Len(raw_data) = 12
  /\ summary.totalMunicipality = 11
  /\ summary.totalDiscipline = 11
  /\ summary.totalTopiku = 1
  /\ \E j \in 1..11 : summary.municipalityChartData.data[j] = 2
  /\ summary.disciplineChartData.data[1] = 2

\* <<row, slot>> p comes before q in the order of the two loops.
PairBefore(p, q) == p[1] < q[1] \/ (p[1] = q[1] /\ p[2] < q[2])

\* The j-th named <<row, slot>> pair in loop order.
PairAt(j) ==
  CHOOSE p \in NamedPairs : Cardinality({q \in NamedPairs : PairBefore(q, p)}) = j - 1

\* Every record of recs carries the shared fields extracted from the row it
\* was emitted from.
CarryRowFields(recs) ==
  \A j \in 1..Len(recs) :
    LET r == PairAt(j)[1]
    IN /\ recs[j].Munisipiu = FieldValue(r, "MUNISIPIU")
       /\ recs[j].Nivel_Eskola = FieldValue(r, "NIVEL_ESKOLA")
       /\ recs[j].Naran_Eskola = FieldValue(r, "NARAN_ESKOLA")
       /\ recs[j].Dixiplina = FieldValue(r, "DIXIPLINA")
       /\ recs[j].Titulu_Topiku = FieldValue(r, "TITULU_TOPIKU_ATIVIDADE")
       /\ recs[j].Dokumentus = FieldValue(r, "DOKUMENTUS")
       /\ recs[j].Timestamp = FieldValue(r, "TIMESTAMP")

\* C16: every detail record carries the municipality, school level, school
\* name, discipline, topic, document reference and timestamp extracted from
\* its input row, so the records of one row agree on them: for the records
\* emitted so far at every point of the loop, and in detailedTableData.
C16_SharedFieldsCopied ==
  /\ Len(processed_rows) <= Cardinality(NamedPairs)
  /\ CarryRowFields(processed_rows)
  /\ Done => summary.detailedTableData = processed_rows

\* C16 witness: three records, the last two from the second row and differing
\* from the first row's record in municipality, level and school.
C16_Witness ==
  /\ Done
  /\ Len(summary.detailedTableData) = 3
  /\ PairAt(2)[1] = 2 /\ PairAt(3)[1] = 2
  /\ LET recs == summary.detailedTableData
     IN /\ recs[2].Munisipiu = recs[3].Munisipiu
        /\ recs[1].Munisipiu # recs[2].Munisipiu
        /\ recs[1].Nivel_Eskola # recs[2].Nivel_Eskola
        /\ recs[1].Naran_Eskola # recs[2].Naran_Eskola
        /\ recs[2].Timestamp # NA

\* id is the decimal numeral of the 0-based index of row r, a hyphen, and the
\* decimal numeral of slot s.
IdOf(id, r, s) ==
  \E d \in 2..(Len(id) - 1) :
    /\ id[d] = "-"
    /\ AllDigits(SubSeq(id, 1, d - 1))
    /\ AllDigits(SubSeq(id, d + 1, Len(id)))
    /\ DigitsToNat(SubSeq(id, 1, d - 1)) = r - 1
    /\ DigitsToNat(SubSeq(id, d + 1, Len(id))) = s

\* C17: the id of every detail record is derived from the index of its source
\* row and its slot, the ids of detailedTableData are pairwise distinct, and a
\* single row with a name in slot 1 yields a first record with the id "0-1".
C17_RecordIds ==
  Done =>
    LET recs == summary.detailedTableData
    IN /\ Len(recs) <= Cardinality(NamedPairs)
       /\ \A j \in 1..Len(recs) : IdOf(recs[j].id, PairAt(j)[1], PairAt(j)[2])
       /\ \A j, h \in 1..Len(recs) : j # h => recs[j].id # recs[h].id
       /\ (Len(raw_data) = 1 /\ <<1, 1>> \in NamedPairs) => recs[1].id = <<"0", "-", "1">>

\* C17 witness: the one row t0, Dili, Pri, EA, Mat, TX, Ana, F, 8 gives one
\* municipality, F counted once, age 8 counted once and one record with id "0-1".
C17_Witness ==
  /\ Done
  /\ raw_data = <<BaseRow>>
  /\ summary.totalMunicipality = 1
  /\ summary.genderChartData.labels = <<cF>> /\ summary.genderChartData.data = <<1>>
  /\ summary.ageDistribution = <<<<c8, 1>>>>
  /\ Len(summary.detailedTableData) = 1
  /\ summary.detailedTableData[1].id = <<"0", "-", "1">>

\* The named <<row, slot>> pairs whose slot the loop has gone through or is
\* left by an exception.
ActedOn == {p \in NamedPairs : SlotDone(p) \/ (pc = "raised" /\ p = <<i + 1, k>>)}

\* The trimmed age text of a <<row, slot>> pair, empty without a cell.
AgeText(p) ==
  IF HasCell(p[1], AgeKey(p[2])) THEN Strip(CellOf(p[1], AgeKey(p[2]))) ELSE <<>>

\* The age text a is that of a number whose truncation is written key.
TruncatesTo(a, key) ==
  /\ a \notin {<<>>, NA}
  /\ ParseFloat(a).kind = "finite"
  /\ key = IntToStr(ParseFloat(a).sign * ParseFloat(a).trunc)

\* C18: every named subject gone through has its detail record, with the
\* trimmed age text in Idade ('N/A' for an empty one), whether or not the age
\* is that of a number; ageDistribution counts, under each integer, exactly
\* the subjects whose age text truncates to it, and has no other key.
C18_AgeCoercion ==
  /\ \A p \in ActedOn :
       \E j \in 1..Len(processed_rows) :
         /\ IdOf(processed_rows[j].id, p[1], p[2])
         /\ processed_rows[j].Idade = IF AgeText(p) = <<>> THEN NA ELSE AgeText(p)
  /\ \A p \in ActedOn :
       (AgeText(p) \notin {<<>>, NA} /\ ParseFloat(AgeText(p)).kind = "finite") =>
         \E key \in Range(DictKeys(age_distribution)) : TruncatesTo(AgeText(p), key)
  /\ \A key \in Range(DictKeys(age_distribution)) :
       /\ DictAt(age_distribution, key) =
            Cardinality({p \in ActedOn : TruncatesTo(AgeText(p), key)})
       /\ DictAt(age_distribution, key) > 0

\* C19: the labels of ageChartData are the keys of ageDistribution, each once,
\* in numerically ascending order, and data[j] is the tally of labels[j].
C19_AgeChartAscending ==
  Done =>
    LET chart == summary.ageChartData
        ages  == summary.ageDistribution
    IN /\ Len(chart.labels) = Len(ages)
       /\ Len(chart.data) = Len(chart.labels)
       /\ Range(chart.labels) = Range(DictKeys(ages))
       /\ \A j \in 1..(Len(chart.labels) - 1) :
            StrToInt(chart.labels[j]) < StrToInt(chart.labels[j + 1])
       /\ \A j \in 1..Len(chart.labels) : chart.data[j] = DictAt(ages, chart.labels[j])

\* C19 witness: the ages tallied in the order 9, 10, 8 are charted as 8, 9, 10,
\* with 9 before 10.
C19_Witness ==
  /\ Done
  /\ DictKeys(summary.ageDistribution) = <<c9, c10, c8>>
  /\ summary.ageChartData.labels = <<c8, c9, c10>>
  /\ summary.ageChartData.data = <<1, 1, 1>>

\* text is digits, a point, one digit and a percent sign, and the number it
\* writes is within half a tenth of 100 * count / total.
IsPercentOf(text, count, total) ==
  /\ Len(text) >= 4
  /\ text[Len(text)] = "%"
  /\ text[Len(text) - 2] = "."
  /\ IsDigit(text[Len(text) - 1])
  /\ AllDigits(SubSeq(text, 1, Len(text) - 3))
  /\ LET tenths == DigitsToNat(SubSeq(text, 1, Len(text) - 3)) * 10
                     + DigitVal(text[Len(text) - 1])
         diff   == tenths * total - 1000 * count
     IN 2 * (IF diff < 0 THEN -diff ELSE diff) <= total

\* percentages is empty for a total of zero, and otherwise has one entry per
\* label, entry j being data[j] out of total as a percentage with one decimal.
PercentagesOutOf(chart, total) ==
  /\ total = 0 => chart.percentages = <<>>
  /\ total > 0 =>
       /\ Len(chart.percentages) = Len(chart.labels)
       /\ \A j \in 1..Len(chart.labels) :
            IsPercentOf(chart.percentages[j], chart.data[j], total)

\* C20 as stated: the percentages are taken out of the total subject count,
\* the number of subjects emitted into detailedTableData.
C20_PercentOfSubjects ==
  Done => PercentagesOutOf(summary.genderChartData, Len(summary.detailedTableData))

\* C20 amended: the percentages are taken out of the number of subjects with a
\* sex value (totalGender): empty when it is zero, otherwise one entry per
\* gender label, entry j being count j out of that number with one decimal.
C20_PercentOfSubjectsWithSex ==
  Done =>
    /\ PercentagesOutOf(summary.genderChartData, Cardinality(RecordsWithSex))
    /\ Len(summary.genderChartData.data) = Len(summary.genderChartData.labels)

\* C20 witness: three subjects, one without a sex value, one F and one M: each
\* gender is 50.0% of the two subjects with a sex value.
C20_Witness ==
  /\ Done
  /\ Len(summary.detailedTableData) = 3
  /\ Cardinality(RecordsWithSex) = 2
  /\ summary.genderChartData.labels = <<cF, <<"M">>>>
  /\ summary.genderChartData.percentages =
       << <<"5", "0", ".", "0", "%">>, <<"5", "0", ".", "0", "%">> >>

\* C22: in schoolLevelChartData, data[j] is the count of the school level
\* labels[j], the number of rows with that level, at every position j.
C22_LevelChartAligned ==
  Done =>
    LET chart == summary.schoolLevelChartData
    IN /\ Len(chart.data) = Len(chart.labels)
       /\ \A j \in 1..Len(chart.labels) :
            /\ chart.data[j] = DictAt(summary.schoolLevelCounts, chart.labels[j])
            /\ chart.data[j] = RowCount("NIVEL_ESKOLA", chart.labels[j])

\* The top-level keys of the summary.
SummaryKeys ==
  { "totalMunicipality", "municipalityChartData", "totalGender", "genderChartData",
    "ageDistribution", "ageChartData", "schoolLevelCounts", "schoolLevelChartData",
    "schoolMunicipalityTableData", "totalDiscipline", "disciplineCounts",
    "disciplineChartData", "totalTopiku", "allNivelEskolaOptions",
    "allMunisipiuOptions", "detailedTableData", "municipalityPieChartData" }

\* The keys of the chart entries.
ChartKeys ==
  { "municipalityChartData", "genderChartData", "ageChartData",
    "schoolLevelChartData", "disciplineChartData", "municipalityPieChartData" }

\* C23: the returned summary has the same 17 top-level keys on the empty-input
\* path and on the populated path, and every chart entry has 'labels' and
\* 'data' of equal length.
C23_SameKeys ==
  Done =>
    /\ DOMAIN summary = SummaryKeys
    /\ Cardinality(DOMAIN summary) = 17
    /\ \A c \in ChartKeys :
         /\ {"labels", "data"} \subseteq DOMAIN summary[c]
         /\ Len(summary[c].labels) = Len(summary[c].data)

\* C23 witness: the early return for an empty input, with its 17 keys.
C23_Witness ==
  /\ Done
  /\ raw_data = <<>>
  /\ i = 0
  /\ Cardinality(DOMAIN summary) = 17
  /\ \A c \in ChartKeys : summary[c].labels = <<>> /\ summary[c].data = <<>>

\* The records that pass the page's current filters and search text.
CurrentlyFiltered ==
  FilteredData(dashboardData.detailedTableData, currentNivelEskolaFilter,
               currentMunisipiuFilter, currentSearchTerm)

\* The number of pages n records take: one page when all rows are shown,
\* otherwise the least number of pages of rowsPerPage rows that hold them.
PagesOf(n) ==
  IF rowsPerPage.all THEN 1
  ELSE CHOOSE p \in 0..n :
         /\ p * rowsPerPage.n >= n
         /\ \A q \in 0..(p - 1) : q * rowsPerPage.n < n

\* The ids of the filtered records on page p.
RowsOfPage(p) ==
  LET n    == Len(CurrentlyFiltered)
      from == IF rowsPerPage.all THEN 1 ELSE (p - 1) * rowsPerPage.n + 1
      to   == IF rowsPerPage.all \/ p * rowsPerPage.n > n THEN n ELSE p * rowsPerPage.n
  IN [j \in 1..(to - from + 1) |-> CurrentlyFiltered[from + j - 1].id]

\* C24: once an event handler of the detail table has finished, the current
\* page is between 1 and the number of pages of the currently filtered
\* records, or 0 when they have no pages, and the table shows the rows of that
\* page, never a page past the last one.
C24_CurrentPageInRange ==
  page_pc = "ready" =>
    LET pages == PagesOf(Len(CurrentlyFiltered))
    IN /\ IF pages = 0 THEN currentPage = 0 ELSE currentPage \in 1..pages
       /\ pages > 0 => tableRows = RowsOfPage(currentPage)
       /\ CurrentlyFiltered # <<>> => tableRows # <<>>

\* C24 witness: a next click has led to page 2, the last page of the filtered
\* records, while all the records take three pages.
C24_Witness ==
  /\ page_pc = "ready"
  /\ currentPage = 2
  /\ currentNivelEskolaFilter # All
  /\ PagesOf(Len(CurrentlyFiltered)) = 2
  /\ PagesOf(Len(dashboardData.detailedTableData)) = 3
  /\ nextDisabled
  /\ Len(tableRows) < rowsPerPage.n

====
